---- MODULE Spec2Model ----
(***************************************************************************)
(* A model of the retrieval-and-conversation engine of the Google Docs     *)
(* knowledge chatbot: the VectorStore (app/services/vector_store.py), its  *)
(* two persisted artifacts, and the request handlers of app/main.py that   *)
(* use it.                                                                 *)
(*                                                                         *)
(* Text is a sequence of one-character strings, a Python dict is a set of  *)
(* <<key, value>> pairs, an Optional value is a sequence of length 0 or 1. *)
(* Vector components are small integers (every one is exactly a float32),  *)
(* and distances are the squared L2 distances IndexFlatL2 reports.         *)
(***************************************************************************)
EXTENDS Integers, Sequences, FiniteSets, TLC

(***************************************************************************)
(* Bounds of the model.                                                    *)
(***************************************************************************)
\* Most passages one VectorStore may hold.
MaxLen == 2
\* Largest k handed to a direct search call.
MaxK == 2
\* Most passages one VectorStore may hold in the crash model.
MaxCrashLen == 1
\* Number of components of an embedding (384 in the deployed model).
Dimension == 2

(***************************************************************************)
(* Values.                                                                 *)
(***************************************************************************)
None == <<>>
Some(x) == <<x>>

Min(a, b) == IF a < b THEN a ELSE b

\* A vector of Dimension components: a, b, 0, 0, ...
Vec(a, b) == [i \in 1..Dimension |-> IF i = 1 THEN a ELSE IF i = 2 THEN b ELSE 0]

\* Embeddings of queries.
QueryVecs == {Vec(1, 0), Vec(3, 1)}

\* The metadata dict index_all_documents and index_single_document build.
DocMetadata(id, name, modified) ==
    {<<"doc_id", id>>, <<"doc_name", name>>, <<"modified", modified>>}

EmptyDict == {}

\* dict.get(key, default)
DictGet(d, key, default) ==
    IF \E p \in d : p[1] = key
    THEN (CHOOSE p \in d : p[1] = key)[2]
    ELSE default

\* The inputs of add_documents: a passage text, the embedding the model
\* gives it, and the doc_metadata argument.
AddInputs ==
    { [chunk     |-> <<"y", "o", "g", "a">>,
       embedding |-> Vec(0, 0),
       meta      |-> Some(DocMetadata("d1", "Yoga", "t1"))],
      [chunk     |-> <<"z", "e", "n">>,
       embedding |-> Vec(2, 0),
       meta      |-> None],
      [chunk     |-> <<"z", "e", "n">>,
       embedding |-> Vec(0, 0),
       meta      |-> Some(DocMetadata("d2", "Zen", "t2"))] }

StoreIds == {"all_docs"}

(***************************************************************************)
(* faiss.IndexFlatL2: d, ntotal and the vectors stored flat, row by row.   *)
(***************************************************************************)
IndexFlatL2(d) == [d |-> d, ntotal |-> 0, xb |-> <<>>]

RECURSIVE Flatten(_)
Flatten(rows) ==
    IF rows = <<>> THEN <<>> ELSE Head(rows) \o Flatten(Tail(rows))

\* index.add(x): appends the rows of x.
IndexAdd(index, x) ==
    [index EXCEPT !.ntotal = @ + Len(x), !.xb = @ \o Flatten(x)]

\* Row i (0-based) of the index.
IndexRow(index, i) == SubSeq(index.xb, i * index.d + 1, (i + 1) * index.d)

RECURSIVE SumSq(_, _, _)
SumSq(a, b, i) ==
    IF i = 0 THEN 0 ELSE (a[i] - b[i]) * (a[i] - b[i]) + SumSq(a, b, i - 1)

\* Squared Euclidean distance, the metric of IndexFlatL2.
L2Sqr(a, b) == SumSq(a, b, Len(a))

\* index.search(q, k): the k nearest rows as <<distance, row number>>,
\* nearest first, equal distances by row number (exhaustive scan).
RECURSIVE IndexSearchFrom(_, _, _, _)
IndexSearchFrom(index, q, k, taken) ==
    LET cand == (0..(index.ntotal - 1)) \ taken
        Dist(i) == L2Sqr(q, IndexRow(index, i))
        Before(i, j) == Dist(i) < Dist(j) \/ (Dist(i) = Dist(j) /\ i <= j)
    IN  IF k = 0 \/ cand = {} THEN <<>>
        ELSE LET best == CHOOSE i \in cand : \A j \in cand : Before(i, j)
             IN  <<(<<Dist(best), best>>)>> \o
                 IndexSearchFrom(index, q, k - 1, taken \cup {best})

IndexSearch(index, q, k) == IndexSearchFrom(index, q, k, {})

(***************************************************************************)
(* VectorStore.                                                            *)
(***************************************************************************)
\* VectorStore.__init__
VectorStore(dimension) ==
    [dimension |-> dimension,
     index     |-> IndexFlatL2(dimension),
     chunks    |-> <<>>,
     metadata  |-> <<>>]

\* add_documents with the metadata appended once per call, not once per chunk.
add_documents_OneMetadata(st, chunks, embeddings, doc_metadata) ==
    IF Len(embeddings) # Len(chunks)
    THEN [raised |-> "ValueError", st |-> st]
    ELSE [raised |-> "none",
          st |-> [st EXCEPT
                    !.index = IndexAdd(@, embeddings),
                    !.chunks = @ \o chunks,
                    !.metadata = Append(@,
                        IF doc_metadata = None THEN EmptyDict ELSE doc_metadata[1])]]

\* add_documents without the check of the two lengths.
add_documents_NoCheck(st, chunks, embeddings, doc_metadata) ==
    [raised |-> "none",
     st |-> [st EXCEPT
               !.index = IndexAdd(@, embeddings),
               !.chunks = @ \o chunks,
               !.metadata = @ \o [i \in 1..Len(chunks) |->
                   IF doc_metadata = None THEN EmptyDict ELSE doc_metadata[1]]]]

\* VectorStore.add_documents: the new store and the exception raised, if any.
add_documents(st, chunks, embeddings, doc_metadata) ==
    IF Len(embeddings) # Len(chunks)
    THEN [raised |-> "ValueError", st |-> st]
    ELSE IF \E i \in DOMAIN embeddings : Len(embeddings[i]) # st.index.d
    THEN [raised |-> "AssertionError", st |-> st]
    ELSE [raised |-> "none",
          st |-> [st EXCEPT
                    !.index = IndexAdd(@, embeddings),
                    !.chunks = @ \o chunks,
                    !.metadata = @ \o [i \in 1..Len(chunks) |->
                        IF doc_metadata = None \/ doc_metadata[1] = EmptyDict
                        THEN EmptyDict ELSE doc_metadata[1]]]]

\* The loop of search with the bound on the row number off by one.
RECURSIVE SearchResults_OffByOne(_, _)
SearchResults_OffByOne(st, found) ==
    IF found = <<>> THEN [raised |-> "none", results |-> <<>>]
    ELSE LET dist == Head(found)[1]
             idx  == Head(found)[2]
             rest == SearchResults_OffByOne(st, Tail(found))
         IN  IF idx < Len(st.chunks) - 1
             THEN [raised  |-> rest.raised,
                   results |-> <<(<<st.chunks[idx + 1], dist,
                                    st.metadata[idx + 1]>>)>> \o rest.results]
             ELSE rest

\* The loop of search over the rows faiss returned: a row whose number is
\* not below len(chunks) is skipped; metadata[idx] past the end raises.
RECURSIVE SearchResults(_, _)
SearchResults(st, found) ==
    IF found = <<>> THEN [raised |-> "none", results |-> <<>>]
    ELSE LET dist == Head(found)[1]
             idx  == Head(found)[2]
             rest == SearchResults(st, Tail(found))
         IN  IF idx < Len(st.chunks)
             THEN IF idx < Len(st.metadata)
                  THEN [raised  |-> rest.raised,
                        results |-> <<(<<st.chunks[idx + 1], dist,
                                         st.metadata[idx + 1]>>)>> \o rest.results]
                  ELSE [raised |-> "IndexError", results |-> <<>>]
             ELSE rest

\* VectorStore.search
search(st, query_embedding, k) ==
    IF st.index.ntotal = 0 THEN [raised |-> "none", results |-> <<>>]
    ELSE LET r == SearchResults(st,
                      IndexSearch(st.index, query_embedding, Min(k, st.index.ntotal)))
         IN  IF r.raised = "none" THEN r
             ELSE [raised |-> r.raised, results |-> <<>>]

(***************************************************************************)
(* The persisted artifacts of one store_id: <id>_index.faiss and           *)
(* <id>_data.pkl.  A file is absent, or present; a present file is intact  *)
(* or was cut short by a crash in the middle of its write.                 *)
(***************************************************************************)
NoIndexBody == [fourcc |-> "none", d |-> 0, ntotal |-> 0, codes |-> <<>>]
NoDataBody == {}

AbsentIndexFile == [exists |-> FALSE, intact |-> FALSE, body |-> NoIndexBody]
AbsentDataFile == [exists |-> FALSE, intact |-> FALSE, body |-> NoDataBody]
TruncatedIndexFile == [exists |-> TRUE, intact |-> FALSE, body |-> NoIndexBody]
TruncatedDataFile == [exists |-> TRUE, intact |-> FALSE, body |-> NoDataBody]

\* faiss.write_index: the serialized index.
write_index(index) ==
    [exists |-> TRUE, intact |-> TRUE,
     body |-> [fourcc |-> "IxF2", d |-> index.d, ntotal |-> index.ntotal,
               codes |-> index.xb]]

\* faiss.read_index of an intact file.
read_index(file) ==
    [d |-> file.body.d, ntotal |-> file.body.ntotal, xb |-> file.body.codes]

\* pickle.dump of the chunks alone.
pickle_dump_NoMetadata(st) ==
    [exists |-> TRUE, intact |-> TRUE,
     body |-> {<<"chunks", st.chunks>>}]

\* pickle.dump({'chunks': ..., 'metadata': ...}, f)
pickle_dump(st) ==
    [exists |-> TRUE, intact |-> TRUE,
     body |-> {<<"chunks", st.chunks>>, <<"metadata", st.metadata>>}]

\* The two steps of VectorStore.save on the artifacts of one store_id.
SaveIndexFile(files, st) == [files EXCEPT !.index = write_index(st.index)]
SaveDataFile(files, st) == [files EXCEPT !.data = pickle_dump(st)]

\* VectorStore.save run to its end.
save(files, st) == SaveDataFile(SaveIndexFile(files, st), st)

\* VectorStore.exists
exists(files) == files.index.exists /\ files.data.exists

\* load that looks for the index file alone before it reads the two.
load_IndexOnly(st, files) ==
    IF ~files.index.exists
    THEN [raised |-> "none", ret |-> FALSE, st |-> st]
    ELSE IF ~files.index.intact
    THEN [raised |-> "RuntimeError", ret |-> FALSE, st |-> st]
    ELSE LET st1 == [st EXCEPT !.index = read_index(files.index)]
         IN  IF ~files.data.exists
             THEN [raised |-> "FileNotFoundError", ret |-> FALSE, st |-> st1]
             ELSE IF ~files.data.intact
             THEN [raised |-> "UnpicklingError", ret |-> FALSE, st |-> st1]
             ELSE [raised |-> "none", ret |-> TRUE,
                   st |-> [st1 EXCEPT
                             !.chunks = DictGet(files.data.body, "chunks", <<>>),
                             !.metadata = DictGet(files.data.body, "metadata", <<>>)]]

\* VectorStore.load: the value returned, the exception raised, the store.
load(st, files) ==
    IF ~files.index.exists \/ ~files.data.exists
    THEN [raised |-> "none", ret |-> FALSE, st |-> st]
    ELSE IF ~files.index.intact
    THEN [raised |-> "RuntimeError", ret |-> FALSE, st |-> st]
    ELSE LET st1 == [st EXCEPT !.index = read_index(files.index)]
         IN  IF ~files.data.intact
             THEN [raised |-> "UnpicklingError", ret |-> FALSE, st |-> st1]
             ELSE IF ~(\E p \in files.data.body : p[1] = "chunks")
             THEN [raised |-> "KeyError", ret |-> FALSE, st |-> st1]
             ELSE [raised |-> "none", ret |-> TRUE,
                   st |-> [st1 EXCEPT
                             !.chunks = DictGet(files.data.body, "chunks", <<>>),
                             !.metadata = DictGet(files.data.body, "metadata", <<>>)]]

\* clear that forgets the metadata list.
clear_KeepsMetadata(st) ==
    [st EXCEPT !.index = IndexFlatL2(st.dimension),
               !.chunks = <<>>]

\* VectorStore.clear
clear(st) ==
    [st EXCEPT !.index = IndexFlatL2(st.dimension),
               !.chunks = <<>>,
               !.metadata = <<>>]

(***************************************************************************)
(* State.                                                                  *)
(***************************************************************************)
VARIABLES
    vs,     \* the VectorStore instance in memory
    disk,   \* store_id -> its two artifacts
    out,    \* the outcome of the last call
    pc,     \* where the process stands inside a call that writes files
    prev,   \* the artifacts as they were when the save under way began
    job,    \* the local variables of the index_all_documents call under way
    writers \* the save calls of the handlers that run at the same time

vars == <<vs, disk, out, pc, prev, job, writers>>

NoFiles == [index |-> AbsentIndexFile, data |-> AbsentDataFile]

\* No index_all_documents call is under way.
NoJob ==
    [docs |-> <<>>, i |-> 0, chunks |-> <<>>, embeddings |-> None, attempt |-> 0,
     total_chunks |-> 0, processed_docs |-> 0, failed_docs |-> <<>>, log |-> <<>>,
     caller |-> "index_all"]

\* The handlers that may save at the same time.
Writers == {1, 2}

\* No save call is under way.
NoWriters == [w \in Writers |-> [pc |-> "idle", store |-> VectorStore(Dimension)]]

Init ==
    /\ vs = VectorStore(Dimension)
    /\ disk = [id \in StoreIds |-> NoFiles]
    /\ out = [op |-> "init", raised |-> "none", ret |-> None]
    /\ pc = "idle"
    /\ prev = NoFiles
    /\ job = NoJob
    /\ writers = NoWriters

(***************************************************************************)
(* Calls on the VectorStore, each run from entry to return.                *)
(***************************************************************************)
\* vector_store = VectorStore(dimension=embedding_engine.dimension)
Construct ==
    /\ pc = "idle"
    /\ vs' = VectorStore(Dimension)
    /\ out' = [op |-> "construct", raised |-> "none", ret |-> None]
    /\ UNCHANGED <<disk, pc, prev, job, writers>>

\* add_documents of n passages and m embeddings.
AddDocuments(a, n, m) ==
    LET chunks == [i \in 1..n |-> a.chunk]
        embeddings == [i \in 1..m |-> a.embedding]
        r == add_documents(vs, chunks, embeddings, a.meta)
    IN  /\ pc = "idle"
        /\ vs' = r.st
        /\ out' = [op |-> "add_documents", raised |-> r.raised,
                   ret |-> <<Len(chunks), Len(embeddings)>>]
        /\ UNCHANGED <<disk, pc, prev, job, writers>>

CallAddDocuments ==
    \E a \in AddInputs, n \in 0..(MaxLen - Len(vs.chunks)),
       m \in 0..(MaxLen - vs.index.ntotal) :
        AddDocuments(a, n, m)

CallSearch ==
    \E q \in QueryVecs, k \in 1..MaxK :
        LET r == search(vs, q, k)
        IN  /\ pc = "idle"
            /\ out' = [op |-> "search", raised |-> r.raised,
                       ret |-> <<q, k, r.results>>]
            /\ UNCHANGED <<vs, disk, pc, prev, job, writers>>

CallSave ==
    \E id \in StoreIds :
        /\ pc = "idle"
        /\ disk' = [disk EXCEPT ![id] = save(@, vs)]
        /\ out' = [op |-> "save", raised |-> "none", ret |-> Some(id)]
        /\ UNCHANGED <<vs, pc, prev, job, writers>>

CallLoad ==
    \E id \in StoreIds :
        LET r == load(vs, disk[id])
        IN  /\ pc = "idle"
            /\ vs' = r.st
            /\ out' = [op |-> "load", raised |-> r.raised, ret |-> <<id, r.ret>>]
            /\ UNCHANGED <<disk, pc, prev, job, writers>>

CallClear ==
    /\ pc = "idle"
    /\ vs' = clear(vs)
    /\ out' = [op |-> "clear", raised |-> "none", ret |-> None]
    /\ UNCHANGED <<disk, pc, prev, job, writers>>

(***************************************************************************)
(* DELETE /clear-index: removes the two artifacts of "all_docs".           *)
(***************************************************************************)
RemoveIndexFile(files) == [files EXCEPT !.index = AbsentIndexFile]
RemoveDataFile(files) == [files EXCEPT !.data = AbsentDataFile]

\* The response of clear_index: 404 when neither file was there.
ClearIndexResponse(deleted) ==
    IF deleted
    THEN [op |-> "clear_index", raised |-> "none", ret |-> Some(200)]
    ELSE [op |-> "clear_index", raised |-> "HTTPException", ret |-> Some(404)]

\* clear_index run from entry to return.
ClearIndex ==
    /\ pc = "idle"
    /\ disk' = [disk EXCEPT !["all_docs"] = RemoveDataFile(RemoveIndexFile(@))]
    /\ out' = ClearIndexResponse(disk["all_docs"].index.exists
                                 \/ disk["all_docs"].data.exists)
    /\ UNCHANGED <<vs, pc, prev, job, writers>>

Next ==
    \/ Construct
    \/ CallAddDocuments
    \/ CallSearch
    \/ CallSave
    \/ CallLoad
    \/ CallClear
    \/ ClearIndex

Spec == Init /\ [][Next]_vars

(***************************************************************************)
(* The same calls with every write to a file as a step of its own, and a   *)
(* crash of the process possible between any two steps.  write_index and   *)
(* open(path, 'wb') write in place: the file is cut to nothing first, and  *)
(* holds its content only once the write has ended.                        *)
(***************************************************************************)
\* The passages ingested in the crash model.
CrashInputs == {a \in AddInputs : a.meta # Some(DocMetadata("d2", "Zen", "t2"))}

CrashAddDocuments ==
    \E a \in CrashInputs, n \in 0..MaxCrashLen :
        /\ Len(vs.chunks) + n <= MaxCrashLen
        /\ vs.index.ntotal + n <= MaxCrashLen
        /\ AddDocuments(a, n, n)

\* save: faiss.write_index opens <id>_index.faiss for writing.
SaveOpenIndex ==
    /\ pc = "idle"
    /\ prev' = disk["all_docs"]
    /\ disk' = [disk EXCEPT !["all_docs"].index = TruncatedIndexFile]
    /\ pc' = "save_index_open"
    /\ out' = [op |-> "save", raised |-> "none", ret |-> None]
    /\ UNCHANGED <<vs, job, writers>>

\* save: faiss.write_index has written the index.
SaveWriteIndex ==
    /\ pc = "save_index_open"
    /\ disk' = [disk EXCEPT !["all_docs"] = SaveIndexFile(@, vs)]
    /\ pc' = "save_index_written"
    /\ UNCHANGED <<vs, out, prev, job, writers>>

\* save: open(data_path, 'wb').
SaveOpenData ==
    /\ pc = "save_index_written"
    /\ disk' = [disk EXCEPT !["all_docs"].data = TruncatedDataFile]
    /\ pc' = "save_data_open"
    /\ UNCHANGED <<vs, out, prev, job, writers>>

\* save: pickle.dump has written the passages and metadata; save returns.
SaveWriteData ==
    /\ pc = "save_data_open"
    /\ disk' = [disk EXCEPT !["all_docs"] = SaveDataFile(@, vs)]
    /\ pc' = "idle"
    /\ prev' = NoFiles
    /\ out' = [op |-> "save", raised |-> "none", ret |-> Some("all_docs")]
    /\ UNCHANGED <<vs, job, writers>>

\* clear_index: os.remove(index_path) if it exists.
ClearIndexRemoveIndex ==
    /\ pc = "idle"
    /\ disk' = [disk EXCEPT !["all_docs"] = RemoveIndexFile(@)]
    /\ pc' = IF disk["all_docs"].index.exists
             THEN "clear_index_deleted" ELSE "clear_index_not_deleted"
    /\ out' = [op |-> "clear_index", raised |-> "none", ret |-> None]
    /\ UNCHANGED <<vs, prev, job, writers>>

\* clear_index: os.remove(data_path) if it exists, and the response.
ClearIndexRemoveData ==
    /\ pc \in {"clear_index_deleted", "clear_index_not_deleted"}
    /\ disk' = [disk EXCEPT !["all_docs"] = RemoveDataFile(@)]
    /\ out' = ClearIndexResponse(pc = "clear_index_deleted"
                                 \/ disk["all_docs"].data.exists)
    /\ pc' = "idle"
    /\ UNCHANGED <<vs, prev, job, writers>>

\* The process dies inside save or clear_index; the files stay as they are.
Crash ==
    /\ pc \notin {"idle", "crashed"}
    /\ pc' = "crashed"
    /\ out' = [out EXCEPT !.raised = "crash"]
    /\ UNCHANGED <<vs, disk, prev, job, writers>>

\* The service starts again with nothing in memory.
Restart ==
    /\ pc = "crashed"
    /\ pc' = "idle"
    /\ vs' = VectorStore(Dimension)
    /\ prev' = NoFiles
    /\ out' = [op |-> "construct", raised |-> "none", ret |-> None]
    /\ UNCHANGED <<disk, job, writers>>

NextCrash ==
    \/ Construct
    \/ CrashAddDocuments
    \/ CallLoad
    \/ CallClear
    \/ SaveOpenIndex
    \/ SaveWriteIndex
    \/ SaveOpenData
    \/ SaveWriteData
    \/ ClearIndexRemoveIndex
    \/ ClearIndexRemoveData
    \/ Crash
    \/ Restart

SpecCrash == Init /\ [][NextCrash]_vars

(***************************************************************************)
(* Text: str.strip, str.lower, str.split as llm.py and main.py use them.   *)
(***************************************************************************)
Whitespace == {" ", "\n", "\t"}

RECURSIVE LStrip(_, _)
LStrip(s, chars) ==
    IF s # <<>> /\ Head(s) \in chars THEN LStrip(Tail(s), chars) ELSE s

RECURSIVE RStrip(_, _)
RStrip(s, chars) ==
    IF s # <<>> /\ s[Len(s)] \in chars
    THEN RStrip(SubSeq(s, 1, Len(s) - 1), chars) ELSE s

\* s.strip(chars)
Strip(s, chars) == RStrip(LStrip(s, chars), chars)

UpperToLower ==
    [A |-> "a", B |-> "b", C |-> "c", D |-> "d", E |-> "e", F |-> "f",
     G |-> "g", H |-> "h", I |-> "i", J |-> "j", K |-> "k", L |-> "l",
     M |-> "m", N |-> "n", O |-> "o", P |-> "p", Q |-> "q", R |-> "r",
     S |-> "s", T |-> "t", U |-> "u", V |-> "v", W |-> "w", X |-> "x",
     Y |-> "y", Z |-> "z"]

\* s.lower()
Lower(s) ==
    [i \in 1..Len(s) |->
        IF s[i] \in DOMAIN UpperToLower THEN UpperToLower[s[i]] ELSE s[i]]

\* The position of the first ch in s, 0 when there is none.
RECURSIVE FindFrom(_, _, _)
FindFrom(s, ch, i) ==
    IF i > Len(s) THEN 0 ELSE IF s[i] = ch THEN i ELSE FindFrom(s, ch, i + 1)

\* len(s.split()): the number of runs of non-whitespace.
WordCount(s) ==
    Cardinality({i \in 1..Len(s) :
        /\ s[i] \notin Whitespace
        /\ (i = 1 \/ s[i - 1] \in Whitespace)})

(***************************************************************************)
(* LLMService (app/services/llm.py).  The reply of the generation backend  *)
(* is an input: the call fails, or it returns a text.                      *)
(***************************************************************************)
\* Below this many characters a first question is sent to the clarity check.
ClarityMinLength == 10
\* A text before a colon of fewer words than this is taken for a label.
MaxLabelWords == 5

\* Replies to the clarity prompt: a failed call, a text that is no JSON,
\* and JSON objects with and without the two keys.
ClarityReplies ==
    { [kind |-> "error", is_clear |-> None, suggested_clarification |-> None],
      [kind |-> "unparseable", is_clear |-> None, suggested_clarification |-> None],
      [kind |-> "json", is_clear |-> Some(TRUE), suggested_clarification |-> None],
      [kind |-> "json", is_clear |-> Some(FALSE),
       suggested_clarification |-> Some("What would you like to know?")],
      [kind |-> "json", is_clear |-> Some(FALSE), suggested_clarification |-> None],
      [kind |-> "json", is_clear |-> Some(FALSE), suggested_clarification |-> Some("")] }

NoReply == [kind |-> "not_called", is_clear |-> None, suggested_clarification |-> None]

\* check_query_clarity consults the backend for this question and history.
ClarityConsulted(question, conversation_history) ==
    /\ conversation_history = <<>>
    /\ Len(Strip(question, Whitespace)) < ClarityMinLength

\* check_query_clarity with no try/except default: a failed or unparseable
\* reply counts as unclear.
check_query_clarity_FailureUnclear(question, conversation_history, reply) ==
    IF conversation_history # <<>>
    THEN [is_clear |-> TRUE, clarification |-> None]
    ELSE IF Len(Strip(question, Whitespace)) < ClarityMinLength
    THEN IF reply.kind = "json" /\ reply.is_clear = Some(FALSE)
         THEN [is_clear |-> FALSE, clarification |-> reply.suggested_clarification]
         ELSE IF reply.kind \in {"error", "unparseable"}
         THEN [is_clear |-> FALSE, clarification |-> Some("Could you clarify?")]
         ELSE [is_clear |-> TRUE, clarification |-> None]
    ELSE [is_clear |-> TRUE, clarification |-> None]

\* LLMService.check_query_clarity, given the reply of the backend.
check_query_clarity(question, conversation_history, reply) ==
    IF conversation_history # <<>>
    THEN [is_clear |-> TRUE, clarification |-> None]
    ELSE IF Len(Strip(question, Whitespace)) < ClarityMinLength
    THEN IF reply.kind = "json" /\ reply.is_clear = Some(FALSE)
         THEN [is_clear |-> FALSE, clarification |-> reply.suggested_clarification]
         ELSE [is_clear |-> TRUE, clarification |-> None]
    ELSE [is_clear |-> TRUE, clarification |-> None]

\* The clean-up of the backend's rephrasing: quotes and a leading label.
CleanRephrased(text) ==
    LET r0 == Strip(text, Whitespace)
        r1 == Strip(Strip(Strip(r0, {"\""}), {"'"}), Whitespace)
        colon == FindFrom(r1, ":", 1)
    IN  IF colon > 0 /\ WordCount(SubSeq(r1, 1, colon - 1)) < MaxLabelWords
        THEN Strip(SubSeq(r1, colon + 1, Len(r1)), Whitespace)
        ELSE r1

Punctuation == {"?", ".", ",", "!", " "}

\* rephrase_query comparing the texts as they are, not normalized.
rephrase_query_NoNormalization(question, conversation_history, reply) ==
    IF conversation_history = <<>> THEN question
    ELSE IF reply.kind = "error" THEN question
    ELSE LET rephrased == CleanRephrased(reply.text)
         IN  IF rephrased # <<>> /\ rephrased # question
             THEN rephrased
             ELSE question

\* LLMService.rephrase_query, given the reply of the backend.
rephrase_query(question, conversation_history, reply) ==
    IF conversation_history = <<>> THEN question
    ELSE IF reply.kind = "error" THEN question
    ELSE LET rephrased == CleanRephrased(reply.text)
         IN  IF rephrased # <<>>
                /\ Strip(Lower(rephrased), Punctuation)
                     # Strip(Lower(question), Punctuation)
             THEN rephrased
             ELSE question

(***************************************************************************)
(* POST /chat (app/main.py).                                               *)
(***************************************************************************)
\* settings.top_k_results
TopK == 3
\* The characters of a passage shown in a source citation.
ExcerptLength == 100

ShortQuestion == <<" ", " ", "w", "h", "y", " ", "z", "e", "n", " ", " ">>
LongQuestion == <<"w", "h", "a", "t", " ", "i", "s", " ", "i", "t">>

History ==
    << [role |-> "user", content |-> <<"z", "e", "n">>],
       [role |-> "assistant", content |-> <<"o", "k">>] >>

ChatRequests ==
    { [question |-> ShortQuestion, conversation_history |-> <<>>],
      [question |-> LongQuestion, conversation_history |-> <<>>],
      [question |-> ShortQuestion, conversation_history |-> History],
      [question |-> LongQuestion, conversation_history |-> History] }

\* Replies to the rephrasing prompt: a failed call, the question again in
\* other case and punctuation, a new question bare, labelled and quoted.
RephraseReplies ==
    { [kind |-> "error", text |-> <<>>],
      [kind |-> "text", text |-> <<"W", "h", "y", " ", "z", "e", "n", "?">>],
      [kind |-> "text", text |-> <<"W", "h", "a", "t", " ", "i", "s", " ", "i", "t", "?">>],
      [kind |-> "text", text |-> <<"w", "h", "y", " ", "y", "o", "g", "a">>],
      [kind |-> "text", text |-> <<"Q", ":", " ", "\"", "i", "s", " ", "z", "e", "n", "\"">>] }

NoRephrase == [kind |-> "not_called", text |-> <<>>]

\* What the message of a failed backend call holds of the words chat looks for.
BackendErrors == {{"rate_limit"}, {"api"}, {}}

\* Replies to the answer prompt: an answer, or a failed call.
GenerateReplies ==
    {[kind |-> "text", error |-> {}]} \cup
    {[kind |-> "error", error |-> e] : e \in BackendErrors}

\* embedding_engine.encode_single: the model is a fixed function of the text.
encode_single(text) ==
    IF \E i \in 1..Len(text) : Lower(text)[i] = "z" THEN Vec(3, 1) ELSE Vec(1, 0)

\* The except branch of chat: the status code chosen from the message.
ErrorStatus(message) ==
    IF "rate_limit" \in message \/ "429" \in message THEN 429
    ELSE IF "api" \in message \/ "authentication" \in message \/ "401" \in message
    THEN 503
    ELSE IF "model" \in message \/ "embedding" \in message THEN 503
    ELSE 500

NoResultsAnswer == "I couldn't find any relevant information in the indexed documents"
NotIndexedDetail == "No documents indexed. Please use /index-all to index your folder first."

\* f"{doc_name}: {chunk[:100]}..." for every result, in order.
Sources(results) ==
    [i \in 1..Len(results) |->
        [doc_name |-> DictGet(results[i][3], "doc_name", "Unknown Document"),
         excerpt  |-> SubSeq(results[i][1], 1, Min(ExcerptLength, Len(results[i][1])))]]

\* What the handler did on the way to its response: the calls it made, the
\* text it embedded for search, the results of search and the arguments of
\* generate_answer (None for a step that was not reached).
Trace(calls, searched, results, generated) ==
    [calls |-> calls, searched |-> searched, results |-> results,
     generated |-> generated]

\* ChatResponse(...), with the trace of the handler.
ChatResponse(answer, sources, is_clarification, rephrased_query, trace) ==
    [raised |-> "none", status |-> 200,
     answer |-> answer, sources |-> sources,
     is_clarification |-> is_clarification,
     rephrased_query |-> rephrased_query,
     calls |-> trace.calls, searched |-> trace.searched,
     results |-> trace.results, generated |-> trace.generated]

\* raise HTTPException(status_code, detail)
ChatFailure(status, detail, trace) ==
    [raised |-> "HTTPException", status |-> status,
     answer |-> detail, sources |-> <<>>, is_clarification |-> FALSE,
     rephrased_query |-> None,
     calls |-> trace.calls, searched |-> trace.searched,
     results |-> trace.results, generated |-> trace.generated]

\* Steps 3 to 7 with the value load returns ignored.
ChatRetrieve_IgnoresLoad(req, rephrased_query, search_query, calls0, embed_ok, gen) ==
    LET loaded == load(VectorStore(Dimension), disk["all_docs"])
        calls3 == calls0 \o <<"load", "encode_single", "search">>
        found == search(loaded.st, encode_single(search_query), TopK)
    IN  IF found.results = <<>>
        THEN ChatResponse(NoResultsAnswer, <<>>, FALSE, rephrased_query,
                          Trace(calls3, Some(search_query), Some(found.results), None))
        ELSE ChatResponse("generated answer", Sources(found.results), FALSE,
                          rephrased_query,
                          Trace(Append(calls3, "generate_answer"), Some(search_query),
                                Some(found.results), None))

\* Steps 3 to 7 with no short-circuit on an empty search result.
ChatRetrieve_AnswersWithoutResults(req, rephrased_query, search_query, calls0, embed_ok, gen) ==
    LET loaded == load(VectorStore(Dimension), disk["all_docs"])
        calls1 == Append(calls0, "load")
        calls4 == calls1 \o <<"encode_single", "search", "generate_answer">>
        found == search(loaded.st, encode_single(search_query), TopK)
    IN  IF ~loaded.ret
        THEN ChatFailure(404, NotIndexedDetail, Trace(calls1, None, None, None))
        ELSE ChatResponse("generated answer", Sources(found.results), FALSE,
                          rephrased_query,
                          Trace(calls4, Some(search_query), Some(found.results),
                                Some([context_chunks |-> <<>>,
                                      question |-> req.question,
                                      conversation_history |-> req.conversation_history])))

\* Steps 3 to 7 with the search query handed to generate_answer.
ChatRetrieve_GeneratesFromSearchQuery(req, rephrased_query, search_query, calls0, embed_ok, gen) ==
    LET loaded == load(VectorStore(Dimension), disk["all_docs"])
        calls1 == Append(calls0, "load")
        calls2 == Append(calls1, "encode_single")
        calls3 == Append(calls2, "search")
        calls4 == Append(calls3, "generate_answer")
        found == search(loaded.st, encode_single(search_query), TopK)
        chunks == [i \in 1..Len(found.results) |-> found.results[i][1]]
        asked == Some([context_chunks |-> chunks,
                       question |-> search_query,
                       conversation_history |-> req.conversation_history])
    IN  IF loaded.raised # "none"
        THEN ChatFailure(ErrorStatus({}), "Chat Processing Error",
                         Trace(calls1, None, None, None))
        ELSE IF ~loaded.ret
        THEN ChatFailure(404, NotIndexedDetail, Trace(calls1, None, None, None))
        ELSE IF ~embed_ok
        THEN ChatFailure(ErrorStatus({"model"}), "Model Service Error",
                         Trace(calls2, Some(search_query), None, None))
        ELSE IF found.raised # "none"
        THEN ChatFailure(ErrorStatus({}), "Chat Processing Error",
                         Trace(calls3, Some(search_query), None, None))
        ELSE IF found.results = <<>>
        THEN ChatResponse(NoResultsAnswer, <<>>, FALSE, rephrased_query,
                          Trace(calls3, Some(search_query), Some(found.results), None))
        ELSE IF gen.kind = "error"
        THEN ChatFailure(ErrorStatus(gen.error), "Error generating answer",
                         Trace(calls4, Some(search_query), Some(found.results), asked))
        ELSE ChatResponse("generated answer", Sources(found.results), FALSE,
                          rephrased_query,
                          Trace(calls4, Some(search_query), Some(found.results), asked))

\* Steps 3 to 7 of chat: load, embed, search, answer.
ChatRetrieve(req, rephrased_query, search_query, calls0, embed_ok, gen) ==
    LET loaded == load(VectorStore(Dimension), disk["all_docs"])
        calls1 == Append(calls0, "load")
        calls2 == Append(calls1, "encode_single")
        calls3 == Append(calls2, "search")
        calls4 == Append(calls3, "generate_answer")
        found == search(loaded.st, encode_single(search_query), TopK)
        chunks == [i \in 1..Len(found.results) |-> found.results[i][1]]
        asked == Some([context_chunks |-> chunks,
                       question |-> req.question,
                       conversation_history |-> req.conversation_history])
    IN  IF loaded.raised # "none"
        THEN ChatFailure(ErrorStatus({}), "Chat Processing Error",
                         Trace(calls1, None, None, None))
        ELSE IF ~loaded.ret
        THEN ChatFailure(404, NotIndexedDetail, Trace(calls1, None, None, None))
        ELSE IF ~embed_ok
        THEN ChatFailure(ErrorStatus({"model"}), "Model Service Error",
                         Trace(calls2, Some(search_query), None, None))
        ELSE IF found.raised # "none"
        THEN ChatFailure(ErrorStatus({}), "Chat Processing Error",
                         Trace(calls3, Some(search_query), None, None))
        ELSE IF found.results = <<>>
        THEN ChatResponse(NoResultsAnswer, <<>>, FALSE, rephrased_query,
                          Trace(calls3, Some(search_query), Some(found.results), None))
        ELSE IF gen.kind = "error"
        THEN ChatFailure(ErrorStatus(gen.error), "Error generating answer",
                         Trace(calls4, Some(search_query), Some(found.results), asked))
        ELSE ChatResponse("generated answer", Sources(found.results), FALSE,
                          rephrased_query,
                          Trace(calls4, Some(search_query), Some(found.results), asked))

\* The replies chat can ask for once it reaches step 3, given the artifacts.
EmbedOutcomes(files) ==
    IF load(VectorStore(Dimension), files).ret THEN {TRUE, FALSE} ELSE {TRUE}

GenerateOutcomes(files, search_query, embed_ok) ==
    LET loaded == load(VectorStore(Dimension), files)
    IN  IF loaded.ret /\ embed_ok
           /\ search(loaded.st, encode_single(search_query), TopK).results # <<>>
        THEN GenerateReplies
        ELSE {[kind |-> "not_called", error |-> {}]}

\* chat with the outcome of the clarity check ignored.
ChatRun_IgnoresClarity(req, clarity_reply, rephrase_reply, embed_ok, gen) ==
    LET question == req.question
        history == req.conversation_history
        calls0 == IF clarity_reply.kind = "not_called"
                  THEN <<"check_query_clarity">>
                  ELSE <<"check_query_clarity", "backend:clarity">>
        rephrased == rephrase_query(question, history, rephrase_reply)
        changed == rephrased # <<>> /\ Lower(rephrased) # Lower(question)
        calls1 == IF history # <<>>
                  THEN calls0 \o <<"rephrase_query", "backend:rephrase">>
                  ELSE calls0
    IN  IF history # <<>> /\ changed
        THEN ChatRetrieve(req, Some(rephrased), rephrased, calls1, embed_ok, gen)
        ELSE ChatRetrieve(req, None, question, calls1, embed_ok, gen)

\* chat with a failed rephrasing call left to fail the request.
ChatRun_RephraseFailureFails(req, clarity_reply, rephrase_reply, embed_ok, gen) ==
    LET question == req.question
        history == req.conversation_history
        clarity == check_query_clarity(question, history, clarity_reply)
        calls0 == IF clarity_reply.kind = "not_called"
                  THEN <<"check_query_clarity">>
                  ELSE <<"check_query_clarity", "backend:clarity">>
        rephrased == rephrase_query(question, history, rephrase_reply)
        changed == rephrased # <<>> /\ Lower(rephrased) # Lower(question)
        calls1 == IF history # <<>>
                  THEN calls0 \o <<"rephrase_query", "backend:rephrase">>
                  ELSE calls0
    IN  IF ~clarity.is_clear /\ clarity.clarification \notin {None, Some("")}
        THEN ChatResponse(clarity.clarification[1], <<>>, TRUE, None,
                          Trace(calls0, None, None, None))
        ELSE IF rephrase_reply.kind = "error"
        THEN ChatFailure(ErrorStatus({}), "Chat Processing Error",
                         Trace(calls1, None, None, None))
        ELSE IF history # <<>> /\ changed
        THEN ChatRetrieve(req, Some(rephrased), rephrased, calls1, embed_ok, gen)
        ELSE ChatRetrieve(req, None, question, calls1, embed_ok, gen)

\* chat, steps 1 and 2, then the rest.
ChatRun(req, clarity_reply, rephrase_reply, embed_ok, gen) ==
    LET question == req.question
        history == req.conversation_history
        clarity == check_query_clarity(question, history, clarity_reply)
        calls0 == IF clarity_reply.kind = "not_called"
                  THEN <<"check_query_clarity">>
                  ELSE <<"check_query_clarity", "backend:clarity">>
        rephrased == rephrase_query(question, history, rephrase_reply)
        changed == rephrased # <<>> /\ Lower(rephrased) # Lower(question)
        calls1 == IF history # <<>>
                  THEN calls0 \o <<"rephrase_query", "backend:rephrase">>
                  ELSE calls0
    IN  IF ~clarity.is_clear /\ clarity.clarification \notin {None, Some("")}
        THEN ChatResponse(clarity.clarification[1], <<>>, TRUE, None,
                          Trace(calls0, None, None, None))
        ELSE IF history # <<>> /\ changed
        THEN ChatRetrieve(req, Some(rephrased), rephrased, calls1, embed_ok, gen)
        ELSE ChatRetrieve(req, None, question, calls1, embed_ok, gen)

\* The search query chat settles on.
SearchQuery(req, rephrase_reply) ==
    LET rephrased == rephrase_query(req.question, req.conversation_history, rephrase_reply)
    IN  IF req.conversation_history # <<>> /\ rephrased # <<>>
           /\ Lower(rephrased) # Lower(req.question)
        THEN rephrased ELSE req.question

\* One chat request from entry to response.  Requests are handled one at a
\* time, and no other handler's VectorStore is alive while chat runs.
Chat ==
    /\ pc = "idle"
    /\ vs = VectorStore(Dimension)
    /\ \E req \in ChatRequests :
        \E clarity_reply \in
              (IF ClarityConsulted(req.question, req.conversation_history)
               THEN ClarityReplies ELSE {NoReply}) :
          LET clarity == check_query_clarity(req.question, req.conversation_history,
                                             clarity_reply)
              asks == ~clarity.is_clear /\ clarity.clarification \notin {None, Some("")}
          IN  \E rephrase_reply \in
                    (IF ~asks /\ req.conversation_history # <<>>
                     THEN RephraseReplies ELSE {NoRephrase}) :
                \E embed_ok \in (IF asks THEN {TRUE} ELSE EmbedOutcomes(disk["all_docs"])) :
                  \E gen \in (IF asks THEN {[kind |-> "not_called", error |-> {}]}
                              ELSE GenerateOutcomes(disk["all_docs"],
                                       SearchQuery(req, rephrase_reply), embed_ok)) :
                    LET response == ChatRun(req, clarity_reply, rephrase_reply,
                                            embed_ok, gen)
                    IN  out' = [op |-> "chat", raised |-> response.raised,
                                ret |-> response,
                                args |-> [request |-> req,
                                          clarity_reply |-> clarity_reply,
                                          rephrase_reply |-> rephrase_reply,
                                          embed_ok |-> embed_ok,
                                          generate_reply |-> gen]]
    /\ UNCHANGED <<vs, disk, pc, prev, job, writers>>

(***************************************************************************)
(* The service as chat sees it: stores are built and saved, the index is   *)
(* cleared, and chat requests are answered from what is on disk.           *)
(***************************************************************************)
\* The passages ingested in the chat model.
ChatInputs == {a \in AddInputs : a.meta # Some(DocMetadata("d2", "Zen", "t2"))}

ChatAddDocuments ==
    \E a \in ChatInputs, n \in 0..1 :
        /\ Len(vs.chunks) + n <= MaxLen
        /\ AddDocuments(a, n, n)

NextChat ==
    \/ Construct
    \/ ChatAddDocuments
    \/ CallSave
    \/ ClearIndex
    \/ Chat

SpecChat == Init /\ [][NextChat]_vars

(***************************************************************************)
(* POST /index-all (app/main.py): the documents of the folder are read,    *)
(* chunked, embedded and added to one new VectorStore, which is saved.     *)
(***************************************************************************)
\* Most documents in one folder listing.
MaxDocs == 2
\* max_retries of the embedding loop.
MaxRetries == 3
\* A document whose stripped text is shorter than this is skipped.
MinContentLength == 50
\* A chunk is kept when its stripped text is longer than this.
MinChunkLength == 50

Yoga == <<"y", "o", "g", "a">>
Zen == <<"z", "e", "n">>
Tea == <<"t", "e", "a">>

\* What get_document_content gives for a document: the words of the
\* exception it raises that the handler looks for, or the text, held as its
\* stripped length and the pieces the text splitter cuts it into.
ReadError(words) == [raised |-> Some(words), length |-> 0, split |-> <<>>]
ReadText(length, split) == [raised |-> None, length |-> length, split |-> split]
Piece(text, length) == [text |-> text, length |-> length]

\* The documents a folder may hold, newest first.
Folder ==
    << [id |-> "d1", name |-> "Yoga", modified |-> "t9",
        content |-> ReadText(60, <<Piece(Yoga, 60)>>)],
       [id |-> "d3", name |-> "Private", modified |-> "t8",
        content |-> ReadError({"Permission denied"})],
       [id |-> "d4", name |-> "Blank", modified |-> "t7",
        content |-> ReadText(0, <<>>)],
       [id |-> "d2", name |-> "Zen", modified |-> "t6",
        content |-> ReadText(70, <<Piece(Zen, 70)>>)],
       [id |-> "d5", name |-> "Note", modified |-> "t5",
        content |-> ReadText(20, <<Piece(<<"n">>, 20)>>)],
       [id |-> "d6", name |-> "Gone 404", modified |-> "t4",
        content |-> ReadError({"404"})],
       [id |-> "d7", name |-> "Tea", modified |-> "t3",
        content |-> ReadText(140, <<Piece(Tea, 80), Piece(<<"s">>, 9), Piece(Zen, 51)>>)],
       [id |-> "d8", name |-> "Stub", modified |-> "t2",
        content |-> ReadText(50, <<Piece(<<"s">>, 50)>>)],
       [id |-> "d9", name |-> "Broken", modified |-> "t1",
        content |-> ReadError({})] >>

\* The entry of a folder listing for a document: id, name, modified.
Listed(d) == [id |-> d.id, name |-> d.name, modified |-> d.modified]

\* drive_service.get_document_content(document_id)
get_document_content(document_id) ==
    Folder[CHOOSE n \in DOMAIN Folder : Folder[n].id = document_id].content

\* The documents of Folder at the positions in picked, in the order of Folder.
RECURSIVE Listing(_, _)
Listing(picked, n) ==
    IF n > Len(Folder) THEN <<>>
    ELSE IF n \in picked THEN <<Listed(Folder[n])>> \o Listing(picked, n + 1)
    ELSE Listing(picked, n + 1)

\* What list_documents_in_folder may return: at most MaxDocs documents,
\* ordered by modifiedTime, newest first.
DocLists ==
    {Listing(picked, 1) :
        picked \in {ps \in SUBSET (DOMAIN Folder) : Cardinality(ps) <= MaxDocs}}

\* The words of a failed listing that the handler looks for.
ListingErrors == {{"403"}, {"not found"}, {}}

\* TextChunker.chunk_text: the pieces of the splitter that are long enough.
RECURSIVE chunk_text(_)
chunk_text(content) ==
    IF content.length = 0 \/ content.split = <<>> THEN <<>>
    ELSE LET rest == chunk_text([content EXCEPT !.split = Tail(@)])
         IN  IF Head(content.split).length > MinChunkLength
             THEN <<Head(content.split).text>> \o rest
             ELSE rest

\* EmbeddingEngine.encode: one vector for every text, a fixed function of it.
encode(texts) ==
    [n \in 1..Len(texts) |->
        IF texts[n] = Yoga THEN Vec(0, 0)
        ELSE IF texts[n] = Zen THEN Vec(2, 0)
        ELSE Vec(0, 2)]

\* What the handler notes of document n of the listing as it goes: the calls
\* of the document source and of the embedder, whether the embedder gave
\* embeddings for it, and whether it was counted as processed.
NoLog == [reads |-> 0, encodes |-> 0, embedded |-> FALSE, counted |-> FALSE]

\* failed_docs.append({"name": doc['name'], "error": error})
Failed(j, error) ==
    [j EXCEPT !.failed_docs = Append(@, [name |-> j.docs[j.i].name, error |-> error])]

\* The frame of index_all_documents at the top of its loop for the next
\* document, or past the loop.
NextDocument(j) ==
    IF j.i < Len(j.docs)
    THEN [job |-> [j EXCEPT !.i = @ + 1, !.chunks = <<>>, !.attempt = 0],
          pc |-> "index_all_read"]
    ELSE [job |-> j, pc |-> "index_all_finish"]

\* The frame of index_all_documents when the listing has been read.
StartJob(docs) ==
    [NoJob EXCEPT !.docs = docs, !.i = 1, !.log = [n \in 1..Len(docs) |-> NoLog]]

\* One document is read, checked and chunked.
ReadDocument(j) ==
    LET doc == j.docs[j.i]
        content == get_document_content(doc.id)
        j1 == [j EXCEPT !.log[j.i].reads = @ + 1]
        chunks == chunk_text(content)
    IN  IF content.raised # None
        THEN IF "403" \in content.raised[1] \/ "Permission denied" \in content.raised[1]
             THEN NextDocument(Failed(j1, "Permission denied"))
             ELSE IF "404" \in content.raised[1]
             THEN NextDocument(Failed(j1, "Document not found or deleted"))
             ELSE NextDocument(Failed(j1, "Error reading document"))
        ELSE IF content.length = 0
        THEN NextDocument(Failed(j1, "Document is empty"))
        ELSE IF content.length < MinContentLength
        THEN NextDocument(Failed(j1, "Document too short"))
        ELSE IF chunks = <<>>
        THEN NextDocument(Failed(j1, "Could not create valid chunks from document"))
        ELSE [job |-> [j1 EXCEPT !.chunks = chunks], pc |-> "index_all_encode"]

\* The embedding loop with one attempt more than max_retries.
EncodeAttempt_OneMoreAttempt(j, ok) ==
    LET j1 == [j EXCEPT !.log[j.i].encodes = @ + 1]
    IN  IF ok
        THEN [job |-> [j1 EXCEPT !.embeddings = Some(encode(j.chunks)),
                                 !.log[j.i].embedded = TRUE],
              pc |-> "index_all_add"]
        ELSE IF j.attempt < MaxRetries
        THEN [job |-> [j1 EXCEPT !.attempt = @ + 1], pc |-> "index_all_encode"]
        ELSE [job |-> Failed(j1, "Failed to generate embeddings"),
              pc |-> "index_all_add"]

\* One attempt of the embedding loop: embedding_engine.encode succeeds or
\* raises.  After the last failed attempt the document is noted as failed
\* and `continue` goes on with the attempt loop, which has ended: control
\* reaches add_documents.
EncodeAttempt(j, ok) ==
    LET j1 == [j EXCEPT !.log[j.i].encodes = @ + 1]
    IN  IF ok
        THEN [job |-> [j1 EXCEPT !.embeddings = Some(encode(j.chunks)),
                                 !.log[j.i].embedded = TRUE],
              pc |-> "index_all_add"]
        ELSE IF j.attempt < MaxRetries - 1
        THEN [job |-> [j1 EXCEPT !.attempt = @ + 1], pc |-> "index_all_encode"]
        ELSE [job |-> Failed(j1, "Failed to generate embeddings"),
              pc |-> "index_all_add"]

\* vector_store.add_documents(chunks, embeddings, metadata) and the two
\* counters; an exception, the NameError of an unbound embeddings included,
\* is noted in failed_docs by the handler around the loop body.
AddToStore(j, st) ==
    LET doc == j.docs[j.i]
        metadata == Some(DocMetadata(doc.id, doc.name, doc.modified))
        r == add_documents(st, j.chunks, j.embeddings[1], metadata)
    IN  IF j.embeddings = None
        THEN [job |-> Failed(j, "NameError"), st |-> st]
        ELSE IF r.raised # "none"
        THEN [job |-> Failed(j, r.raised), st |-> st]
        ELSE [job |-> [j EXCEPT !.total_chunks = @ + Len(j.chunks),
                                !.processed_docs = @ + 1,
                                !.log[j.i].counted = TRUE],
              st |-> r.st]

\* raise HTTPException(status_code, detail) in index_all_documents
IndexFailure(status, error, failed_docs) ==
    [raised |-> "HTTPException", status |-> status, error |-> error,
     failed_documents |-> failed_docs,
     chunks_indexed |-> 0, documents_processed |-> 0, total_documents |-> None,
     warnings |-> None]

\* IndexResponse(**response_detail)
IndexResponse(chunks_indexed, documents_processed, total_documents, failed_docs) ==
    [raised |-> "none", status |-> 200, error |-> "",
     failed_documents |-> <<>>,
     chunks_indexed |-> chunks_indexed,
     documents_processed |-> documents_processed,
     total_documents |-> total_documents,
     warnings |-> IF failed_docs # <<>> THEN Some(failed_docs) ELSE None]

\* The end of index_all_documents failing as soon as one document failed.
FinishJob_FailsOnAnyFailure(j, st, files) ==
    IF j.total_chunks = 0 \/ j.failed_docs # <<>>
    THEN [response |-> IndexFailure(400, "No Content Indexed", j.failed_docs),
          files |-> files]
    ELSE [response |-> IndexResponse(j.total_chunks, j.processed_docs,
                                     Some(Len(j.docs)), j.failed_docs),
          files |-> save(files, st)]

\* The end of index_all_documents saving the store before it looks at the
\* number of chunks.
FinishJob_SavesFirst(j, st, files) ==
    IF j.total_chunks = 0
    THEN [response |-> IndexFailure(400, "No Content Indexed", j.failed_docs),
          files |-> save(files, st)]
    ELSE [response |-> IndexResponse(j.total_chunks, j.processed_docs,
                                     Some(Len(j.docs)), j.failed_docs),
          files |-> save(files, st)]

\* The end of index_all_documents: nothing indexed is a failure, and
\* otherwise the store is saved.
FinishJob(j, st, files) ==
    IF j.total_chunks = 0
    THEN [response |-> IndexFailure(400, "No Content Indexed", j.failed_docs),
          files |-> files]
    ELSE [response |-> IndexResponse(j.total_chunks, j.processed_docs,
                                     Some(Len(j.docs)), j.failed_docs),
          files |-> save(files, st)]

\* The status of a failed folder listing.
ListingFailure(words) ==
    IF "403" \in words \/ "Permission denied" \in words
    THEN IndexFailure(403, "Permission Denied", <<>>)
    ELSE IF "404" \in words \/ "not found" \in words
    THEN IndexFailure(404, "Folder Not Found", <<>>)
    ELSE IndexFailure(500, "Internal Server Error", <<>>)

\* The result of an index_all_documents call.
IndexAllResult(response) ==
    [op |-> "index_all", raised |-> response.raised, ret |-> response]

\* index_all_documents: the folder cannot be listed.
IndexAllListingFails ==
    /\ pc = "idle"
    /\ \E words \in ListingErrors :
        out' = IndexAllResult(ListingFailure(words))
    /\ UNCHANGED <<vs, disk, pc, prev, job, writers>>

\* index_all_documents: the folder is listed and the store is made.
IndexAllBegin ==
    /\ pc = "idle"
    /\ \E docs \in DocLists :
        IF docs = <<>>
        THEN /\ out' = IndexAllResult(IndexFailure(404, "No Documents Found", <<>>))
             /\ UNCHANGED <<vs, pc, job>>
        ELSE /\ job' = StartJob(docs)
             /\ vs' = VectorStore(Dimension)
             /\ pc' = "index_all_read"
             /\ out' = [op |-> "index_all", raised |-> "none", ret |-> None]
    /\ UNCHANGED <<disk, prev, writers>>

\* index_all_documents: the next document is read, checked and chunked.
IndexAllRead ==
    /\ pc = "index_all_read"
    /\ job' = ReadDocument(job).job
    /\ pc' = ReadDocument(job).pc
    /\ UNCHANGED <<vs, disk, out, prev, writers>>

\* index_all_documents: one attempt to embed the chunks of the document.
IndexAllEncode ==
    /\ pc = "index_all_encode"
    /\ \E ok \in BOOLEAN :
        /\ job' = EncodeAttempt(job, ok).job
        /\ pc' = EncodeAttempt(job, ok).pc
    /\ UNCHANGED <<vs, disk, out, prev, writers>>

\* index_all_documents: the chunks and embeddings are added to the store.
IndexAllAdd ==
    /\ pc = "index_all_add"
    /\ vs' = AddToStore(job, vs).st
    /\ job' = NextDocument(AddToStore(job, vs).job).job
    /\ pc' = NextDocument(AddToStore(job, vs).job).pc
    /\ UNCHANGED <<disk, out, prev, writers>>

\* index_all_documents: past the loop, the store is saved and the response
\* returned; the store of the call is dropped.
IndexAllFinish ==
    /\ pc = "index_all_finish"
    /\ job.caller = "index_all"
    /\ disk' = [disk EXCEPT !["all_docs"] = FinishJob(job, vs, @).files]
    /\ out' = IndexAllResult(FinishJob(job, vs, disk["all_docs"]).response)
    /\ job' = NoJob
    /\ vs' = VectorStore(Dimension)
    /\ pc' = "idle"
    /\ UNCHANGED <<prev, writers>>

NextIngest ==
    \/ IndexAllListingFails
    \/ IndexAllBegin
    \/ IndexAllRead
    \/ IndexAllEncode
    \/ IndexAllAdd
    \/ IndexAllFinish
    \/ ClearIndex
    \/ Chat

SpecIngest == Init /\ [][NextIngest]_vars

(***************************************************************************)
(* POST /reindex (app/main.py): a store of its own is made and cleared,    *)
(* and index_all_documents is awaited; whatever that call raises is raised *)
(* again with status 500.                                                  *)
(***************************************************************************)
\* raise HTTPException(status_code=500, detail=f"Error re-indexing: {str(e)}")
ReindexFailure(e) ==
    [raised |-> "HTTPException", status |-> 500, error |-> "Error re-indexing",
     failed_documents |-> <<>>,
     chunks_indexed |-> 0, documents_processed |-> 0, total_documents |-> None,
     warnings |-> None, detail |-> <<e.status, e.error>>]

\* The result of a reindex_all call whose index_all_documents call gave response.
ReindexResult(response) ==
    [op |-> "reindex", raised |-> response.raised,
     ret |-> IF response.raised = "HTTPException"
             THEN ReindexFailure(response) ELSE response]

\* The store reindex_all makes and clears before it awaits index_all_documents;
\* it is dropped when reindex_all returns, and index_all_documents never sees it.
ReindexStore == clear(VectorStore(Dimension))

\* reindex_all: the folder cannot be listed.
ReindexListingFails ==
    /\ pc = "idle"
    /\ ReindexStore = VectorStore(Dimension)
    /\ \E words \in ListingErrors :
        out' = ReindexResult(ListingFailure(words))
    /\ UNCHANGED <<vs, disk, pc, prev, job, writers>>

\* reindex_all: its store is cleared, the folder is listed and the store of
\* index_all_documents is made.
ReindexBegin ==
    /\ pc = "idle"
    /\ ReindexStore = VectorStore(Dimension)
    /\ \E docs \in DocLists :
        IF docs = <<>>
        THEN /\ out' = ReindexResult(IndexFailure(404, "No Documents Found", <<>>))
             /\ UNCHANGED <<vs, pc, job>>
        ELSE /\ job' = [StartJob(docs) EXCEPT !.caller = "reindex"]
             /\ vs' = VectorStore(Dimension)
             /\ pc' = "index_all_read"
             /\ out' = [op |-> "reindex", raised |-> "none", ret |-> None]
    /\ UNCHANGED <<disk, prev, writers>>

\* reindex_all: index_all_documents is past its loop, saves the store or
\* raises, and reindex_all returns its response or raises in its turn.
ReindexFinish ==
    /\ pc = "index_all_finish"
    /\ job.caller = "reindex"
    /\ disk' = [disk EXCEPT !["all_docs"] = FinishJob(job, vs, @).files]
    /\ out' = ReindexResult(FinishJob(job, vs, disk["all_docs"]).response)
    /\ job' = NoJob
    /\ vs' = VectorStore(Dimension)
    /\ pc' = "idle"
    /\ UNCHANGED <<prev, writers>>

NextBatch ==
    \/ IndexAllListingFails
    \/ IndexAllBegin
    \/ IndexAllRead
    \/ IndexAllEncode
    \/ IndexAllAdd
    \/ IndexAllFinish
    \/ ReindexListingFails
    \/ ReindexBegin
    \/ ReindexFinish
    \/ ClearIndex

SpecBatch == Init /\ [][NextBatch]_vars

(***************************************************************************)
(* GET /documents (app/main.py): the documents of the folder, each with    *)
(* whether it is indexed.  It is served between the saves, clear_index     *)
(* calls, crashes and restarts of the service.                             *)
(***************************************************************************)
\* os.path.exists(os.path.join(settings.vector_store_path, "all_docs_index.faiss"))
IndexFileExists(files) == files.index.exists

\* DocumentInfo(id=doc['id'], name=doc['name'], modified=doc['modified'], indexed=indexed)
DocumentInfo(doc, indexed) ==
    [id |-> doc.id, name |-> doc.name, modified |-> doc.modified,
     indexed |-> indexed]

\* list_documents: one DocumentInfo for every document of the listing.
list_documents(docs, files) ==
    [raised |-> "none", status |-> 200,
     ret |-> [n \in 1..Len(docs) |-> DocumentInfo(docs[n], IndexFileExists(files))]]

\* raise HTTPException(status_code=500, detail=f"Error listing documents: {str(e)}")
ListDocumentsFailure ==
    [raised |-> "HTTPException", status |-> 500, ret |-> <<>>]

\* The result of a list_documents call.
ListDocumentsResult(response) ==
    [op |-> "list_documents", raised |-> response.raised, ret |-> response]

\* list_documents run from entry to response.
ListDocuments ==
    /\ pc = "idle"
    /\ \E docs \in DocLists :
        out' = ListDocumentsResult(list_documents(docs, disk["all_docs"]))
    /\ UNCHANGED <<vs, disk, pc, prev, job, writers>>

\* list_documents: the folder cannot be listed.
ListDocumentsListingFails ==
    /\ pc = "idle"
    /\ out' = ListDocumentsResult(ListDocumentsFailure)
    /\ UNCHANGED <<vs, disk, pc, prev, job, writers>>

NextListing ==
    \/ Construct
    \/ CrashAddDocuments
    \/ SaveOpenIndex
    \/ SaveWriteIndex
    \/ SaveOpenData
    \/ SaveWriteData
    \/ ClearIndexRemoveIndex
    \/ ClearIndexRemoveData
    \/ Crash
    \/ Restart
    \/ ListDocuments
    \/ ListDocumentsListingFails

SpecListing == Init /\ [][NextListing]_vars

(***************************************************************************)
(* POST /index-document (app/main.py) with a document_id: the document is  *)
(* read, chunked and embedded, the saved store is loaded, the passages are *)
(* added and the store is saved again.  (Without a document_id the handler *)
(* is index_all_documents.)                                                *)
(***************************************************************************)
\* raise HTTPException(status_code, detail) in index_single_document
DocumentFailure(status, detail, files) ==
    [response |-> [raised |-> "HTTPException", status |-> status, message |-> detail,
                   chunks_indexed |-> 0, documents_processed |-> 0],
     files |-> files]

\* index_single_document with a store that is not loaded before the
\* passages are added.
index_single_document_NoLoad(document_id, embed_ok, files) ==
    LET n == CHOOSE n \in DOMAIN Folder : Folder[n].id = document_id
        metadata == Listed(Folder[n])
        content == get_document_content(document_id)
        chunks == chunk_text(content)
        added == add_documents(VectorStore(Dimension), chunks, encode(chunks),
                     Some(DocMetadata(metadata.id, metadata.name, metadata.modified)))
    IN  IF content.raised # None
        THEN DocumentFailure(500, "Error indexing document", files)
        ELSE IF content.length = 0
        THEN DocumentFailure(400, "Document is empty", files)
        ELSE IF chunks = <<>>
        THEN DocumentFailure(400, "No valid chunks created", files)
        ELSE IF ~embed_ok
        THEN DocumentFailure(500, "Error indexing document", files)
        ELSE [response |-> [raised |-> "none", status |-> 200,
                            message |-> metadata.name,
                            chunks_indexed |-> Len(chunks),
                            documents_processed |-> 1],
              files |-> save(files, added.st)]

\* index_single_document(request) for a request with a document_id, given
\* whether the embedder succeeds and the artifacts on disk.
index_single_document(document_id, embed_ok, files) ==
    LET n == CHOOSE n \in DOMAIN Folder : Folder[n].id = document_id
        metadata == Listed(Folder[n])
        content == get_document_content(document_id)
        chunks == chunk_text(content)
        loaded == load(VectorStore(Dimension), files)
        added == add_documents(loaded.st, chunks, encode(chunks),
                     Some(DocMetadata(metadata.id, metadata.name, metadata.modified)))
    IN  IF content.raised # None
        THEN DocumentFailure(500, "Error indexing document", files)
        ELSE IF content.length = 0
        THEN DocumentFailure(400, "Document is empty", files)
        ELSE IF chunks = <<>>
        THEN DocumentFailure(400, "No valid chunks created", files)
        ELSE IF ~embed_ok
        THEN DocumentFailure(500, "Error indexing document", files)
        ELSE IF loaded.raised # "none"
        THEN DocumentFailure(500, "Error indexing document", files)
        ELSE IF added.raised # "none"
        THEN DocumentFailure(500, "Error indexing document", files)
        ELSE [response |-> [raised |-> "none", status |-> 200,
                            message |-> metadata.name,
                            chunks_indexed |-> Len(chunks),
                            documents_processed |-> 1],
              files |-> save(files, added.st)]

\* The passages on disk, none when the artifacts cannot be loaded.
PersistedChunks(files) ==
    LET loaded == load(VectorStore(Dimension), files)
    IN  IF loaded.raised = "none" /\ loaded.ret THEN loaded.st.chunks ELSE <<>>

\* One index_single_document request from entry to response.
IndexDocument ==
    /\ pc = "idle"
    /\ \E n \in DOMAIN Folder, embed_ok \in BOOLEAN :
        LET document_id == Folder[n].id
            chunks == chunk_text(get_document_content(document_id))
            r == index_single_document(document_id, embed_ok, disk["all_docs"])
        IN  /\ embed_ok \/ chunks # <<>>
            /\ Len(PersistedChunks(disk["all_docs"])) + Len(chunks) <= MaxLen
            /\ disk' = [disk EXCEPT !["all_docs"] = r.files]
            /\ out' = [op |-> "index_document", raised |-> r.response.raised,
                       ret |-> r.response,
                       args |-> [document_id |-> document_id, embed_ok |-> embed_ok]]
    /\ UNCHANGED <<vs, pc, prev, job, writers>>

NextAppend ==
    \/ IndexDocument
    \/ ClearIndex
    \/ Construct
    \/ CallLoad

SpecAppend == Init /\ [][NextAppend]_vars

(***************************************************************************)
(* Two handlers, each with a store of its own, call save for "all_docs" at *)
(* the same time (two index-all runs): the writes of the two calls come in *)
(* any order.  Writing over a file another call has written since this     *)
(* call opened it leaves this call's content or a torn file.               *)
(***************************************************************************)
\* The stores the two handlers have built.
WriterStores ==
    {add_documents(VectorStore(Dimension), <<a.chunk>>, <<a.embedding>>, a.meta).st :
        a \in AddInputs}

\* The two handlers reach vector_store.save(path, "all_docs").
SavesBegin ==
    /\ pc = "idle"
    /\ \A w \in Writers : writers[w].pc = "idle"
    /\ \E stores \in [Writers -> WriterStores] :
        writers' = [w \in Writers |-> [pc |-> "save", store |-> stores[w]]]
    /\ out' = [op |-> "save", raised |-> "none", ret |-> None]
    /\ UNCHANGED <<vs, disk, pc, prev, job>>

\* save of handler w: faiss.write_index opens the index file for writing.
WriterOpenIndex ==
    \E w \in Writers :
        /\ writers[w].pc = "save"
        /\ disk' = [disk EXCEPT !["all_docs"].index = TruncatedIndexFile]
        /\ writers' = [writers EXCEPT ![w].pc = "save_index_open"]
        /\ UNCHANGED <<vs, out, pc, prev, job>>

\* save of handler w: faiss.write_index has written the index.
WriterWriteIndex ==
    \E w \in Writers :
        /\ writers[w].pc = "save_index_open"
        /\ \E torn \in (IF disk["all_docs"].index.intact THEN BOOLEAN ELSE {FALSE}) :
            disk' = [disk EXCEPT !["all_docs"] =
                        IF torn THEN [@ EXCEPT !.index = TruncatedIndexFile]
                        ELSE SaveIndexFile(@, writers[w].store)]
        /\ writers' = [writers EXCEPT ![w].pc = "save_index_written"]
        /\ UNCHANGED <<vs, out, pc, prev, job>>

\* save of handler w: open(data_path, 'wb').
WriterOpenData ==
    \E w \in Writers :
        /\ writers[w].pc = "save_index_written"
        /\ disk' = [disk EXCEPT !["all_docs"].data = TruncatedDataFile]
        /\ writers' = [writers EXCEPT ![w].pc = "save_data_open"]
        /\ UNCHANGED <<vs, out, pc, prev, job>>

\* save of handler w: pickle.dump has written the data; save returns.
WriterWriteData ==
    \E w \in Writers :
        /\ writers[w].pc = "save_data_open"
        /\ \E torn \in (IF disk["all_docs"].data.intact THEN BOOLEAN ELSE {FALSE}) :
            disk' = [disk EXCEPT !["all_docs"] =
                        IF torn THEN [@ EXCEPT !.data = TruncatedDataFile]
                        ELSE SaveDataFile(@, writers[w].store)]
        /\ writers' = [writers EXCEPT ![w].pc = "saved"]
        /\ UNCHANGED <<vs, out, pc, prev, job>>

\* Both handlers have returned.
SavesEnd ==
    /\ \A w \in Writers : writers[w].pc = "saved"
    /\ writers' = NoWriters
    /\ out' = [op |-> "save", raised |-> "none", ret |-> Some("all_docs")]
    /\ UNCHANGED <<vs, disk, pc, prev, job>>

NextSaves ==
    \/ SavesBegin
    \/ WriterOpenIndex
    \/ WriterWriteIndex
    \/ WriterOpenData
    \/ WriterWriteData
    \/ SavesEnd

SpecSaves == Init /\ [][NextSaves]_vars

(***************************************************************************)
(* Properties of the VectorStore, checked under Spec.                      *)
(***************************************************************************)
\* C1: in every reachable state of a VectorStore, after any sequence of
\* add_documents, clear, save and load, the number of vectors in the index
\* equals the number of passages and the number of metadata entries.
C1_ParallelArrays ==
    /\ vs.index.ntotal = Len(vs.chunks)
    /\ Len(vs.chunks) = Len(vs.metadata)
    /\ Len(vs.index.xb) = vs.index.ntotal * vs.index.d

\* A populated store that was just loaded from the artifacts of an earlier save.
C1_Witness ==
    /\ out.op = "load"
    /\ out.ret[2]
    /\ Len(vs.chunks) >= 2

\* C2: right after save(path, id), load(path, id) on a fresh VectorStore
\* returns True and gives, for every query and every k, the search results
\* (passages, metadata, order, distances) of the store that was saved.
C2_RoundTrip ==
    [][out'.op = "save" =>
        LET r == load(VectorStore(Dimension), disk'[out'.ret[1]])
        IN  /\ r.raised = "none"
            /\ r.ret
            /\ \A q \in QueryVecs, k \in 1..MaxK :
                   search(r.st, q, k) = search(vs, q, k)]_vars

\* A store of two different passages, loaded back after a save.
C2_Witness ==
    /\ out.op = "load"
    /\ out.ret[2]
    /\ vs.index.ntotal >= 2
    /\ vs.chunks[1] # vs.chunks[2]
    /\ vs.metadata[1] # vs.metadata[2]

\* res is the k nearest of the n stored triples of st, nearest first, each
\* vector with the passage and the metadata stored at its own position.
IsNearest(st, q, k, res) ==
    LET n == st.index.ntotal
        Dist(i) == L2Sqr(q, IndexRow(st.index, i))
    IN  /\ Len(res) = Min(k, n)
        /\ \A p \in 1..(Len(res) - 1) : res[p][2] <= res[p + 1][2]
        /\ \E f \in [1..Len(res) -> 0..(n - 1)] :
              /\ \A p1, p2 \in 1..Len(res) : f[p1] = f[p2] => p1 = p2
              /\ \A p \in 1..Len(res) :
                    res[p] = <<st.chunks[f[p] + 1], Dist(f[p]), st.metadata[f[p] + 1]>>
              /\ \A j \in 0..(n - 1) :
                    (\A p \in 1..Len(res) : f[p] # j) =>
                        \A p \in 1..Len(res) : res[p][2] <= Dist(j)

\* C4: for every index of n vectors, every query and every k > 0, search
\* returns exactly min(k, n) results, by ascending distance, the nearest
\* stored vectors each with its own passage and metadata: nothing when n is
\* 0, everything when k >= n.
C4_SearchTopK ==
    \A q \in QueryVecs, k \in 1..MaxK :
        LET r == search(vs, q, k)
        IN  /\ r.raised = "none"
            /\ IsNearest(vs, q, k, r.results)
            /\ (vs.index.ntotal = 0 => r.results = <<>>)
            /\ (k >= vs.index.ntotal => Len(r.results) = vs.index.ntotal)

\* A search with k below n whose single result is the second stored triple.
C4_Witness ==
    /\ out.op = "search"
    /\ vs.index.ntotal = 2
    /\ out.ret[2] = 1
    /\ Len(out.ret[3]) = 1
    /\ out.ret[3][1][1] = vs.chunks[2]
    /\ out.ret[3][1][1] # vs.chunks[1]

\* C6: add_documents with a number of embeddings different from the number
\* of passages raises and leaves index, passages and metadata as they were.
C6_MismatchRejected ==
    [][(out'.op = "add_documents" /\ out'.ret[1] # out'.ret[2]) =>
        /\ out'.raised = "ValueError"
        /\ vs' = vs
        /\ disk' = disk]_vars

\* A rejected add_documents on a store that already holds a passage.
C6_Witness ==
    /\ out.op = "add_documents"
    /\ out.raised = "ValueError"
    /\ out.ret[1] # out.ret[2]
    /\ Len(vs.chunks) >= 1

\* C7: clear() leaves the store empty whatever it held, clearing again
\* changes nothing, search afterwards returns nothing, and the persisted
\* artifacts are as they were.
C7_ClearResets ==
    [][out'.op = "clear" =>
        /\ vs'.index.ntotal = 0
        /\ vs'.index.xb = <<>>
        /\ vs'.chunks = <<>>
        /\ vs'.metadata = <<>>
        /\ clear(vs') = vs'
        /\ \A q \in QueryVecs, k \in 1..MaxK :
               search(vs', q, k) = [raised |-> "none", results |-> <<>>]
        /\ disk' = disk]_vars

\* A cleared store beside artifacts that still hold passages.
C7_Witness ==
    /\ out.op = "clear"
    /\ vs.chunks = <<>>
    /\ \E id \in StoreIds :
          /\ exists(disk[id])
          /\ disk[id].index.body.ntotal >= 1

(***************************************************************************)
(* Properties of the persisted artifacts, checked under SpecCrash.         *)
(***************************************************************************)
\* What a store holds: its index, its passages, its metadata.
Contents(st) == <<st.index, st.chunks, st.metadata>>

\* Both artifacts are there, whole, and of one length.
ValidArtifacts(files) ==
    /\ exists(files)
    /\ files.index.intact
    /\ files.data.intact
    /\ files.index.body.ntotal = Len(DictGet(files.data.body, "chunks", <<>>))
    /\ files.index.body.ntotal = Len(DictGet(files.data.body, "metadata", <<>>))

\* C3: if a save to a store_id that holds a valid persisted index crashes at
\* any point of the write, a later load gives either the whole previous
\* state or the whole new state, never a mixture or a partly written file.
C3_CrashKeepsOldOrNew ==
    (pc = "crashed" /\ out.op = "save" /\ ValidArtifacts(prev)) =>
        LET r == load(VectorStore(Dimension), disk["all_docs"])
            old == load(VectorStore(Dimension), prev)
        IN  /\ r.raised = "none"
            /\ r.ret
            /\ Contents(r.st) \in {Contents(old.st), Contents(vs)}

\* C5: load returns True exactly when both artifacts are there and were
\* read into the store; when either is absent it returns False, raises
\* nothing and leaves index, passages and metadata as they were.
C5_LoadResult ==
    [][out'.op = "load" =>
        LET files == disk[out'.ret[1]]
        IN  /\ out'.ret[2] <=>
                  /\ exists(files)
                  /\ out'.raised = "none"
                  /\ vs'.index = read_index(files.index)
                  /\ vs'.chunks = DictGet(files.data.body, "chunks", <<>>)
                  /\ vs'.metadata = DictGet(files.data.body, "metadata", <<>>)
            /\ ~exists(files) =>
                  /\ ~out'.ret[2]
                  /\ out'.raised = "none"
                  /\ vs' = vs]_vars

\* load returned False on a populated store: the index file is there, the
\* data file is not.
C5_Witness ==
    /\ out.op = "load"
    /\ ~out.ret[2]
    /\ out.raised = "none"
    /\ disk["all_docs"].index.exists
    /\ ~disk["all_docs"].data.exists
    /\ Len(vs.chunks) >= 1

(***************************************************************************)
(* Properties of chat, checked under SpecChat.  out holds the last chat    *)
(* request, the replies it was given and the response, and the artifacts   *)
(* are those the request read.                                             *)
(***************************************************************************)
Called(name) == \E i \in 1..Len(out.ret.calls) : out.ret.calls[i] = name

\* C8: when a chat request reaches retrieval and load fails because nothing
\* was indexed, the request ends with the not-indexed failure: no canned
\* answer, no successful answer, no search, no answer synthesis.
C8_NotIndexedFailure ==
    (out.op = "chat" /\ Called("load") /\ ~exists(disk["all_docs"])) =>
        /\ out.raised = "HTTPException"
        /\ out.ret.status = 404
        /\ out.ret.answer = NotIndexedDetail
        /\ out.ret.status \notin {200, 429, 500, 503}
        /\ out.ret.answer # NoResultsAnswer
        /\ ~Called("encode_single")
        /\ ~Called("search")
        /\ ~Called("generate_answer")
        /\ out.ret.generated = None

\* A follow-up question, rephrased by the backend, asked before any indexing.
C8_Witness ==
    /\ out.op = "chat"
    /\ Called("backend:rephrase")
    /\ Called("load")
    /\ ~exists(disk["all_docs"])
    /\ out.ret.status = 404

\* C9: when search returns no result in a chat request, the response is the
\* canned answer with no sources and is_clarification false, and the
\* generation backend is not asked for an answer.
C9_NoResultsShortCircuit ==
    (out.op = "chat" /\ Called("search") /\ out.ret.results = Some(<<>>)) =>
        /\ out.raised = "none"
        /\ out.ret.status = 200
        /\ out.ret.answer = NoResultsAnswer
        /\ out.ret.sources = <<>>
        /\ ~out.ret.is_clarification
        /\ ~Called("generate_answer")
        /\ out.ret.generated = None

\* A chat request on a persisted empty index: the backend rephrased the
\* question, search found nothing.
C9_Witness ==
    /\ out.op = "chat"
    /\ exists(disk["all_docs"])
    /\ disk["all_docs"].index.body.ntotal = 0
    /\ Called("backend:rephrase")
    /\ Called("search")
    /\ out.ret.results = Some(<<>>)
    /\ out.ret.answer = NoResultsAnswer

\* What check_query_clarity returned in the last chat request.
LastClarity ==
    check_query_clarity(out.args.request.question,
                        out.args.request.conversation_history,
                        out.args.clarity_reply)

\* The response is the clarification and nothing else was done.
ShortCircuited ==
    /\ out.raised = "none"
    /\ out.ret.status = 200
    /\ out.ret.answer = LastClarity.clarification[1]
    /\ out.ret.sources = <<>>
    /\ out.ret.is_clarification
    /\ ~Called("rephrase_query")
    /\ ~Called("load")
    /\ ~Called("search")
    /\ ~Called("generate_answer")

\* C10 as claimed: whenever the clarity check judges the question unclear,
\* chat returns the clarification text with no sources and is_clarification
\* true, and does no rephrasing, no load, no search, no answer synthesis.
C10_UnclearShortCircuits ==
    (out.op = "chat" /\ ~LastClarity.is_clear) =>
        /\ LastClarity.clarification # None
        /\ ShortCircuited

\* C10 as amended: chat short-circuits so whenever the question is judged
\* unclear and the check gives a non-empty clarification text; judged
\* unclear with no text, the request goes on to load the index.
C10_UnclearWithTextShortCircuits ==
    (out.op = "chat" /\ ~LastClarity.is_clear) =>
        IF LastClarity.clarification \notin {None, Some("")}
        THEN ShortCircuited
        ELSE /\ ~out.ret.is_clarification
             /\ Called("load")

\* A first, short question the backend judged vague, answered by its
\* clarifying question.
C10_Witness ==
    /\ out.op = "chat"
    /\ ~LastClarity.is_clear
    /\ Called("backend:clarity")
    /\ out.ret.is_clarification
    /\ out.ret.answer = "What would you like to know?"

\* C11: the clarity check never blocks a chat request.  With a non-empty
\* history the backend is not consulted and the question counts as clear;
\* with an empty history the backend is consulted only when the trimmed
\* question is shorter than 10 characters; and when the backend call fails
\* or its reply cannot be parsed the question counts as clear and the
\* request goes on to load the index, with no clarification returned.
C11_ClarityNeverBlocks ==
    out.op = "chat" =>
        LET req == out.args.request
            reply == out.args.clarity_reply
        IN  /\ req.conversation_history # <<>> =>
                    /\ ~Called("backend:clarity")
                    /\ LastClarity.is_clear
                    /\ ~out.ret.is_clarification
            /\ Called("backend:clarity") =>
                    /\ req.conversation_history = <<>>
                    /\ Len(Strip(req.question, Whitespace)) < 10
            /\ reply.kind \in {"error", "unparseable"} =>
                    /\ LastClarity.is_clear
                    /\ ~out.ret.is_clarification
                    /\ Called("load")

\* A first, short question whose clarity reply was no JSON, answered from
\* the index all the same.
C11_Witness ==
    /\ out.op = "chat"
    /\ out.args.clarity_reply.kind = "unparseable"
    /\ Called("backend:clarity")
    /\ Called("generate_answer")
    /\ out.ret.status = 200
    /\ ~out.ret.is_clarification

\* C12: rephrasing is attempted exactly when the conversation history is
\* non-empty, and when the backend call for it fails the request goes on to
\* retrieval with the original question as the search query and no
\* rephrased_query in the response.
C12_RephraseFallback ==
    out.op = "chat" =>
        LET req == out.args.request
        IN  /\ Called("rephrase_query") <=> req.conversation_history # <<>>
            /\ Called("backend:rephrase") <=> req.conversation_history # <<>>
            /\ out.args.rephrase_reply.kind = "error" =>
                    /\ Called("load")
                    /\ out.ret.rephrased_query = None
                    /\ out.ret.searched \in {None, Some(req.question)}
                    /\ Called("encode_single") =>
                            out.ret.searched = Some(req.question)

\* A follow-up question whose rephrasing call failed, searched for and
\* answered as it was asked.
C12_Witness ==
    /\ out.op = "chat"
    /\ out.args.rephrase_reply.kind = "error"
    /\ Called("generate_answer")
    /\ out.ret.searched = Some(out.args.request.question)
    /\ out.ret.status = 200
    /\ out.ret.rephrased_query = None

\* text.lower().strip('?.,! ')
Normalized(text) == Strip(Lower(text), Punctuation)

C14_SynthesisArguments ==
    (out.op = "chat" /\ Called("generate_answer")) =>
        LET req == out.args.request
            stored == load(VectorStore(Dimension), disk["all_docs"]).st
            results == search(stored, encode_single(out.ret.searched[1]), TopK).results
            asked == out.ret.generated[1]
        IN  /\ out.ret.searched # None
            /\ out.ret.results = Some(results)
            /\ out.ret.generated # None
            /\ asked.question = req.question
            /\ Len(asked.context_chunks) = Len(results)
            /\ \A i \in 1..Len(results) : asked.context_chunks[i] = results[i][1]
            /\ out.raised = "none" =>
                    /\ Len(out.ret.sources) = Len(results)
                    /\ \A i \in 1..Len(results) :
                           /\ out.ret.sources[i].doc_name
                                 = DictGet(results[i][3], "doc_name", "Unknown Document")
                           /\ out.ret.sources[i].excerpt
                                 = SubSeq(results[i][1], 1, Min(100, Len(results[i][1])))

\* A follow-up question that was rephrased: the rephrased text was searched
\* for, two passages came back, and the answer was asked for with the
\* question as the user put it.
C14_Witness ==
    /\ out.op = "chat"
    /\ out.raised = "none"
    /\ Called("generate_answer")
    /\ out.ret.rephrased_query # None
    /\ out.ret.searched = out.ret.rephrased_query
    /\ out.ret.generated[1].question = out.args.request.question
    /\ out.ret.searched # Some(out.args.request.question)
    /\ Len(out.ret.sources) = 2
    /\ out.ret.sources[1] # out.ret.sources[2]

(***************************************************************************)
(* Properties of index_all_documents, checked under SpecIngest.            *)
(***************************************************************************)
\* The entries of failed_docs that name document n of the listing.
FailedEntries(j, n) ==
    {k \in DOMAIN j.failed_docs : j.failed_docs[k].name = j.docs[n].name}

\* The rows of a store that carry the doc_id of document n of the listing.
RowsOf(st, j, n) ==
    {r \in DOMAIN st.chunks : DictGet(st.metadata[r], "doc_id", "") = j.docs[n].id}

\* The embedder gave embeddings for document n of the listing.
Embedded(j) == {n \in DOMAIN j.log : j.log[n].embedded}

\* The passages of document n are in the store, in their order, each with
\* its embedding and the metadata of the document.
HoldsPassages(st, j, n) ==
    LET doc == j.docs[n]
        chunks == chunk_text(get_document_content(doc.id))
    IN  \E first \in 0..Len(st.chunks) :
            /\ first + Len(chunks) <= Len(st.chunks)
            /\ \A c \in DOMAIN chunks :
                   /\ st.chunks[first + c] = chunks[c]
                   /\ st.metadata[first + c] = DocMetadata(doc.id, doc.name, doc.modified)
                   /\ IndexRow(st.index, first + c - 1) = encode(chunks)[c]

\* C15: index_all_documents fails exactly when no document gave indexable
\* content; when at least one document gave passages and others failed,
\* it returns a success response whose warnings name the failed documents,
\* and the saved index holds the passages of the documents that succeeded.
C15_FailsOnlyWhenNothingIndexed ==
    [][/\ (pc = "idle" /\ pc' = "idle" /\ out'.op = "index_all") =>
              out'.raised = "HTTPException"
       /\ (pc = "index_all_finish" /\ pc' = "idle") =>
              LET stored == load(VectorStore(Dimension), disk'["all_docs"])
                  failed == DOMAIN job.docs \ Embedded(job)
              IN  /\ out'.raised = "HTTPException" <=> Embedded(job) = {}
                  /\ out'.raised = "HTTPException" => disk' = disk
                  /\ (Embedded(job) # {} /\ failed # {}) =>
                         /\ out'.ret.status = 200
                         /\ out'.ret.warnings # None
                         /\ {out'.ret.warnings[1][k].name :
                                 k \in DOMAIN out'.ret.warnings[1]}
                               = {job.docs[n].name : n \in failed}
                  /\ Embedded(job) # {} =>
                         /\ stored.raised = "none"
                         /\ stored.ret
                         /\ \A n \in Embedded(job) : HoldsPassages(stored.st, job, n)
      ]_vars

\* A folder of two documents, one of which failed: the response is a
\* success with a warning, and the index is on disk.
C15_Witness ==
    /\ out.op = "index_all"
    /\ pc = "idle"
    /\ out.raised = "none"
    /\ out.ret.total_documents = Some(2)
    /\ out.ret.documents_processed = 1
    /\ out.ret.warnings # None
    /\ Len(out.ret.warnings[1]) = 1
    /\ exists(disk["all_docs"])

\* C16: a document whose embeddings failed on every attempt has one entry
\* in failed_docs, has no passage or embedding in the store, and is not
\* counted in processed_docs or total_chunks.
C16_EmbeddingFailureRecorded ==
    pc = "index_all_finish" =>
        \A n \in DOMAIN job.docs :
            (job.log[n].encodes = MaxRetries /\ ~job.log[n].embedded) =>
                /\ Cardinality(FailedEntries(job, n)) = 1
                /\ RowsOf(vs, job, n) = {}
                /\ ~job.log[n].counted
                /\ job.processed_docs = Cardinality(Embedded(job))
                /\ job.total_chunks = vs.index.ntotal

\* C17: retries are bounded and for the embedder alone.  In
\* index_all_documents the embedder is called at most 3 times for a
\* document and not again once it gave embeddings, the document source at
\* most once for a document; in chat the backend is asked at most once for
\* each of clarity, rephrasing and answer; and every step of
\* index_all_documents brings it nearer to its end, so that it ends.
StepsLeft(j, at) ==
    LET later == (Len(j.docs) - j.i) * (MaxRetries + 2)
    IN  IF at = "index_all_read" THEN later + MaxRetries + 3
        ELSE IF at = "index_all_encode" THEN later + (MaxRetries - j.attempt) + 2
        ELSE IF at = "index_all_add" THEN later + 2
        ELSE IF at = "index_all_finish" THEN 1
        ELSE 0

TimesCalled(name) ==
    Cardinality({k \in DOMAIN out.ret.calls : out.ret.calls[k] = name})

C17_BoundedRetry ==
    [][/\ \A n \in DOMAIN job'.log :
              /\ job'.log[n].encodes <= 3
              /\ job'.log[n].reads <= 1
       /\ (job'.docs = job.docs /\ job.docs # <<>>) =>
              \A n \in DOMAIN job.log :
                  job.log[n].embedded => job'.log[n].encodes = job.log[n].encodes
       /\ (out.op = "chat" =>
              /\ TimesCalled("backend:clarity") <= 1
              /\ TimesCalled("backend:rephrase") <= 1
              /\ TimesCalled("generate_answer") <= 1)'
       /\ pc \notin {"idle"} =>
              /\ StepsLeft(job', pc') < StepsLeft(job, pc)
              /\ StepsLeft(job', pc') >= 0
      ]_vars

\* Two documents were read once each; the embedder failed twice for the
\* second and gave its embeddings at the third attempt.
C17_Witness ==
    /\ pc = "index_all_finish"
    /\ Len(job.docs) = 2
    /\ job.log[1].reads = 1
    /\ job.log[2].reads = 1
    /\ job.log[1].encodes = 1
    /\ job.log[2].encodes = 3
    /\ job.log[2].embedded

\* C19: a failure of one document does not keep the later ones from being
\* processed, and past the loop every document of the listing is accounted
\* for once: counted in processed_docs with its passages in the store, or
\* one entry of failed_docs; processed_docs + len(failed_docs) is the
\* number of documents.
C19_EveryDocumentAccountedOnce ==
    pc = "index_all_finish" =>
        /\ \A n \in DOMAIN job.docs :
               /\ job.log[n].reads = 1
               /\ \/ /\ job.log[n].counted
                      /\ FailedEntries(job, n) = {}
                      /\ HoldsPassages(vs, job, n)
                  \/ /\ ~job.log[n].counted
                      /\ Cardinality(FailedEntries(job, n)) = 1
                      /\ RowsOf(vs, job, n) = {}
        /\ job.processed_docs + Len(job.failed_docs) = Len(job.docs)

(***************************************************************************)
(* Properties of concurrent saves, checked under SpecSaves.                *)
(***************************************************************************)
\* C18: when two save calls to the same path and store_id that ran at the
\* same time have both returned, the index artifact and the data artifact
\* are those of one of the two calls, whatever the order of their writes:
\* load gives the whole state of one writer.
C18_LastWriterWins ==
    (\A w \in Writers : writers[w].pc = "saved") =>
        LET loaded == load(VectorStore(Dimension), disk["all_docs"])
        IN  /\ loaded.raised = "none"
            /\ loaded.ret
            /\ \E w \in Writers : Contents(loaded.st) = Contents(writers[w].store)

(***************************************************************************)
(* Properties of index_single_document, checked under SpecAppend.          *)
(***************************************************************************)
\* C20: every successful index_single_document call on a store whose two
\* artifacts exist leaves on disk the passages that were there, unchanged
\* and in order, followed by the chunks of the document, with their
\* embeddings and metadata; nothing is left out because its text or its
\* document is in the store already.
C20_AppendOnly ==
    [][(out'.op = "index_document" /\ out'.raised = "none"
        /\ exists(disk["all_docs"])) =>
          LET before == load(VectorStore(Dimension), disk["all_docs"]).st
              after == load(VectorStore(Dimension), disk'["all_docs"])
              n == CHOOSE n \in DOMAIN Folder : Folder[n].id = out'.args.document_id
              chunks == chunk_text(Folder[n].content)
              metadata == DocMetadata(Folder[n].id, Folder[n].name, Folder[n].modified)
          IN  /\ after.raised = "none"
              /\ after.ret
              /\ chunks # <<>>
              /\ out'.ret.chunks_indexed = Len(chunks)
              /\ after.st.chunks = before.chunks \o chunks
              /\ after.st.metadata = before.metadata \o [c \in DOMAIN chunks |-> metadata]
              /\ after.st.index = IndexAdd(before.index, encode(chunks))
      ]_vars

\* The same document was ingested twice with no clear between: its passage
\* is on disk twice.
C20_Witness ==
    /\ out.op = "index_document"
    /\ out.raised = "none"
    /\ out.args.document_id = "d1"
    /\ PersistedChunks(disk["all_docs"]) = <<Yoga, Yoga>>

(***************************************************************************)
(* C21: a batch ingestion that fails leaves the persisted index alone.     *)
(***************************************************************************)
\* The step returns a failure of index_all_documents or of reindex_all.
BatchFails ==
    /\ pc' = "idle"
    /\ out'.op \in {"index_all", "reindex"}
    /\ out'.raised = "HTTPException"
    /\ \/ pc = "index_all_finish"
       \/ pc = "idle" /\ out'.ret.status \in {403, 404, 500}

\* The step is one of a batch ingestion that has not come to its end.
BatchGoesOn == pc' \in {"index_all_read", "index_all_encode", "index_all_add",
                        "index_all_finish"}

C22_IndexedAgreesWithExists ==
    (out.op = "list_documents" /\ out.raised = "none") =>
        \A n \in DOMAIN out.ret.ret :
            out.ret.ret[n].indexed = exists(disk["all_docs"])

====
